---- MODULE Spec2Model ----
(***************************************************************************)
(* ESP-NOW receiver (src/src/main.rs): the boot decision on the retained   *)
(* flag IS_AWAKE, the mailbox of three atomics shared by the receive       *)
(* callback on_receive and the main loop, and the threshold policy that    *)
(* drives the two LEDs and the buzzer.                                     *)
(*                                                                         *)
(* The main task and the callback (run by the Wi-Fi task) are two          *)
(* processes; every SeqCst load or store is one step.  Program counters    *)
(* are named after the source line about to execute.                       *)
(***************************************************************************)
EXTENDS Integers, Sequences, FiniteSets, TLC

\* ---------------------------------------------------------------- constants
TOPIC_ID_KETTLE_THERMO == 1
TOPIC_ID_SINK_THERMO == 2
TOPIC_ID_KETTLE_SOUND == 3
WAKEUP_GPIO == 4
\* std::mem::size_of::<HubData>() for the packed struct of two i32
HubDataSize == 8
KettleThreshold == 50
SinkThreshold == 32
ESP_SLEEP_WAKEUP_GPIO == "GPIO"
ESP_SLEEP_WAKEUP_UNDEFINED == "UNDEFINED"

\* ------------------------------------------------------------------- bounds
\* frames of valid length accepted per boot
MaxFrames == 2

\* wake causes the platform may report at boot
WakeCauses == {ESP_SLEEP_WAKEUP_GPIO, ESP_SLEEP_WAKEUP_UNDEFINED}
\* payloads a sender may put in a frame: both sides of each threshold, the
\* declared third topic, and a frame that carries the mailbox's initial values
Payloads ==
  { <<TOPIC_ID_KETTLE_THERMO, 50>>, <<TOPIC_ID_KETTLE_THERMO, 51>>,
    <<TOPIC_ID_SINK_THERMO, 31>>, <<TOPIC_ID_SINK_THERMO, 32>>,
    <<TOPIC_ID_KETTLE_SOUND, 51>>, <<-1, 0>> }
\* frame lengths in bytes delivered to the callback
FrameLens == {7, 8, 9}

\* ------------------------------------------------------- wire format (i32)
\* little-endian bytes of a two's complement 32-bit integer (the sign bit is
\* bit 7 of the fourth byte)
I32Bytes(v) ==
  LET neg == v < 0
      u == IF neg THEN (v + 2147483647) + 1 ELSE v
      top == u \div 16777216
  IN  << u % 256, (u \div 256) % 256, (u \div 65536) % 256,
         IF neg THEN top + 128 ELSE top >>

\* the i32 stored in four little-endian bytes starting at offset off (1-based)
I32At(b, off) ==
  LET low == b[off] + 256 * b[off + 1] + 65536 * b[off + 2]
      top == b[off + 3]
  IN  IF top >= 128
        THEN ((low + 16777216 * (top - 128)) - 2147483647) - 1
        ELSE low + 16777216 * top

\* a frame of l bytes whose leading bytes are the packed record (topic, measurement)
FrameBytes(p, l) == SubSeq(I32Bytes(p[1]) \o I32Bytes(p[2]) \o <<0>>, 1, l)

\* std::ptr::read_unaligned(data as *const HubData)
ReadHubData(b) == [topic_id |-> I32At(b, 1), measurement |-> I32At(b, 5)]

NoData == [topic_id |-> 0, measurement |-> 0]

VARIABLES
  \* main task
  pc,                   \* line about to execute; "halted" in deep sleep, "returned" after main returns
  wake_cause,           \* what esp_sleep_get_wakeup_cause() reports for this boot
  wakeup_reason,        \* local of main
  IS_AWAKE,             \* retained (.rtc.data) flag
  wake_armed,           \* the wake GPIO was configured as wake source in this boot
  registered,           \* on_receive is registered with ESP-NOW
  topic_id, measurement,\* locals of the loop body
  thermo_1_led, thermo_2_led, buzzer,   \* output levels
  \* mailbox
  RECEIVED_TOPIC, RECEIVED_MEASUREMENT, DATA_READY,
  \* callback
  cb_pc,                \* "idle" or the line about to execute
  data,                 \* the frame passed to the callback (len = Len(data))
  hub_data,             \* local of on_receive
  \* history
  nAcc,                 \* frames accepted in this boot; the frame in the callback is number nAcc
  pub,                  \* number of the last frame whose DATA_READY store completed
  RT_src, RM_src,       \* frame that wrote RECEIVED_TOPIC / RECEIVED_MEASUREMENT (0: initial)
  topic_src, meas_src,  \* frame the locals topic_id / measurement were read from
  pub_at_load,          \* pub when line 176 last observed DATA_READY true
  dispatched,           \* the takes the loop dispatched on, in order
  rung,                 \* on_receive stored DATA_READY while the loop body was past its reads
  trig,                 \* the wake GPIO fired while the main loop was running
  decision, prev_decision,  \* boot decision of the latest boot that decided, and of the one before
  init_failed,          \* esp_now_init failed in the latest boot that decided
  spurious              \* some boot reported the GPIO wake cause without following a deep-sleep halt

vars == << pc, wake_cause, wakeup_reason, IS_AWAKE, wake_armed, registered,
           topic_id, measurement, thermo_1_led, thermo_2_led, buzzer,
           RECEIVED_TOPIC, RECEIVED_MEASUREMENT, DATA_READY,
           cb_pc, data, hub_data,
           nAcc, pub, RT_src, RM_src, topic_src, meas_src, pub_at_load,
           dispatched, rung, trig, decision, prev_decision, init_failed, spurious >>

mailbox == << RECEIVED_TOPIC, RECEIVED_MEASUREMENT, DATA_READY, RT_src, RM_src >>
outputs == << thermo_1_led, thermo_2_led, buzzer >>
callback == << cb_pc, data, hub_data >>
retained == << IS_AWAKE >>
loopLocals == << topic_id, measurement, topic_src, meas_src, pub_at_load >>
history == << nAcc, pub, dispatched, rung >>
bootHist == << decision, prev_decision, init_failed, spurious >>

\* positions of the main loop (lines 175-212, with the bodies of sound_buzzer and flash_led)
LoopPcs == {"L176", "L177", "L178", "L182", "L75", "L77", "L81", "L83",
            "L188", "L197", "L202", "L208", "L211"}
\* positions of the loop body after the match at line 182 and before the store at line 208
ActPcs == {"L75", "L77", "L81", "L83", "L188", "L197", "L202"}
SleepPcs == {"L69", "L70", "halted"}

\* ------------------------------------------------------------ process start
\* Ordinary statics and locals as the loader leaves them; retained memory is not touched.
RamInit ==
  /\ pc' = "L99"
  /\ wakeup_reason' = ESP_SLEEP_WAKEUP_UNDEFINED
  /\ wake_armed' = FALSE
  /\ registered' = FALSE
  /\ topic_id' = 0 /\ measurement' = 0
  /\ thermo_1_led' = FALSE /\ thermo_2_led' = FALSE /\ buzzer' = FALSE
  /\ RECEIVED_TOPIC' = -1 /\ RECEIVED_MEASUREMENT' = 0 /\ DATA_READY' = FALSE
  /\ cb_pc' = "idle" /\ data' = << >> /\ hub_data' = NoData
  /\ nAcc' = 0 /\ pub' = 0 /\ RT_src' = 0 /\ RM_src' = 0
  /\ topic_src' = 0 /\ meas_src' = 0 /\ pub_at_load' = 0
  /\ dispatched' = << >> /\ rung' = FALSE /\ trig' = FALSE

Init ==
  /\ pc = "L99"
  /\ wake_cause \in WakeCauses
  /\ wakeup_reason = ESP_SLEEP_WAKEUP_UNDEFINED
  /\ IS_AWAKE = FALSE
  /\ wake_armed = FALSE
  /\ registered = FALSE
  /\ topic_id = 0 /\ measurement = 0
  /\ thermo_1_led = FALSE /\ thermo_2_led = FALSE /\ buzzer = FALSE
  /\ RECEIVED_TOPIC = -1 /\ RECEIVED_MEASUREMENT = 0 /\ DATA_READY = FALSE
  /\ cb_pc = "idle" /\ data = << >> /\ hub_data = NoData
  /\ nAcc = 0 /\ pub = 0 /\ RT_src = 0 /\ RM_src = 0
  /\ topic_src = 0 /\ meas_src = 0 /\ pub_at_load = 0
  /\ dispatched = << >> /\ rung = FALSE /\ trig = FALSE
  /\ decision = "none" /\ prev_decision = "none" /\ init_failed = FALSE
  /\ spurious = (wake_cause = ESP_SLEEP_WAKEUP_GPIO)

\* ------------------------------------------------------------- environment
\* The chip restarts (power-on, reset button, brown-out) and the platform reports cause c.
Reset(c) ==
  /\ pc # "L99"
  /\ wake_cause' = c
  /\ RamInit
  /\ spurious' = (spurious \/ (c = ESP_SLEEP_WAKEUP_GPIO /\ pc # "halted"))
  /\ UNCHANGED << retained, decision, prev_decision, init_failed >>

\* The wake GPIO goes high.  In deep sleep it restarts the chip with the GPIO wake
\* cause; while the main loop runs nothing in main.rs reacts to it, the event is
\* only recorded.
ExternalTrigger ==
  \/ /\ pc = "halted"
     /\ wake_cause' = ESP_SLEEP_WAKEUP_GPIO
     /\ RamInit
     /\ UNCHANGED << retained, bootHist >>
  \/ /\ pc \in LoopPcs
     /\ ~trig
     /\ trig' = TRUE
     /\ UNCHANGED << pc, wake_cause, wakeup_reason, IS_AWAKE, wake_armed, registered,
                     loopLocals, outputs, mailbox, callback,
                     nAcc, pub, dispatched, rung, bootHist >>

\* --------------------------------------------------------------- main: boot
mainFrame == << wake_cause, mailbox, callback, history, trig >>

\* line 99: let wakeup_reason = esp_sleep_get_wakeup_cause()
L99 ==
  /\ pc = "L99"
  /\ wakeup_reason' = wake_cause
  /\ pc' = "L102"
  /\ UNCHANGED << mainFrame, IS_AWAKE, wake_armed, registered, loopLocals, outputs, bootHist >>

\* BootDecision with the first trigger boot forgetting to set the flag
BootDecision_flagNotSet(reason, flag) ==
  IF reason = ESP_SLEEP_WAKEUP_GPIO
    THEN IF flag
           THEN [decision |-> "EnterSleep", flag |-> flag, next |-> "L69"]
           ELSE [decision |-> "ResumeAndArm", flag |-> flag, next |-> "L117"]
    ELSE [decision |-> "ColdBoot", flag |-> FALSE, next |-> "L117"]

\* BootDecision with the cold boot leaving the flag as it found it
BootDecision_flagKept(reason, flag) ==
  IF reason = ESP_SLEEP_WAKEUP_GPIO
    THEN IF flag
           THEN [decision |-> "EnterSleep", flag |-> flag, next |-> "L69"]
           ELSE [decision |-> "ResumeAndArm", flag |-> TRUE, next |-> "L117"]
    ELSE [decision |-> "ColdBoot", flag |-> flag, next |-> "L117"]

\* BootDecision clearing the flag itself on the way to sleep
BootDecision_clearsOnSleep(reason, flag) ==
  IF reason = ESP_SLEEP_WAKEUP_GPIO
    THEN IF flag
           THEN [decision |-> "EnterSleep", flag |-> FALSE, next |-> "L69"]
           ELSE [decision |-> "ResumeAndArm", flag |-> TRUE, next |-> "L117"]
    ELSE [decision |-> "ColdBoot", flag |-> FALSE, next |-> "L117"]

\* BootDecision arming the receiver on a cold boot as well
BootDecision_coldArms(reason, flag) ==
  IF reason = ESP_SLEEP_WAKEUP_GPIO
    THEN IF flag
           THEN [decision |-> "EnterSleep", flag |-> TRUE, next |-> "L69"]
           ELSE [decision |-> "ResumeAndArm", flag |-> TRUE, next |-> "L117"]
    ELSE [decision |-> "ColdBoot", flag |-> TRUE, next |-> "L117"]

\* lines 102-113: the boot decision on the wake cause and the retained flag:
\* the decision, the flag it leaves, and where main continues
BootDecision(reason, flag) ==
  IF reason = ESP_SLEEP_WAKEUP_GPIO
    THEN IF flag
           THEN [decision |-> "EnterSleep", flag |-> flag, next |-> "L69"]
           ELSE [decision |-> "ResumeAndArm", flag |-> TRUE, next |-> "L117"]
    ELSE [decision |-> "ColdBoot", flag |-> FALSE, next |-> "L117"]

L102 ==
  /\ pc = "L102"
  /\ LET d == BootDecision(wakeup_reason, IS_AWAKE)
     IN  /\ decision' = d.decision
         /\ IS_AWAKE' = d.flag
         /\ pc' = d.next
  /\ prev_decision' = decision
  /\ init_failed' = FALSE
  /\ UNCHANGED << mainFrame, wakeup_reason, wake_armed, registered, loopLocals, outputs, spurious >>

\* line 69 (go_to_sleep): IS_AWAKE = false
L69 ==
  /\ pc = "L69"
  /\ IS_AWAKE' = FALSE
  /\ pc' = "L70"
  /\ UNCHANGED << mainFrame, wakeup_reason, wake_armed, registered, loopLocals, outputs, bootHist >>

\* line 70 (go_to_sleep): esp_deep_sleep_start() does not return
L70 ==
  /\ pc = "L70"
  /\ pc' = "halted"
  /\ UNCHANGED << mainFrame, wakeup_reason, IS_AWAKE, wake_armed, registered, loopLocals,
                  outputs, bootHist >>

\* lines 117-124: the three outputs are configured and set low
L117 ==
  /\ pc = "L117"
  /\ thermo_1_led' = FALSE /\ thermo_2_led' = FALSE /\ buzzer' = FALSE
  /\ pc' = "L150"
  /\ UNCHANGED << mainFrame, wakeup_reason, IS_AWAKE, wake_armed, registered, loopLocals, bootHist >>

\* lines 149-158: gpio_wakeup_enable and esp_deep_sleep_enable_gpio_wakeup
L150 ==
  /\ pc = "L150"
  /\ wake_armed' = TRUE
  /\ pc' = "L162"
  /\ UNCHANGED << mainFrame, wakeup_reason, IS_AWAKE, registered, loopLocals, outputs, bootHist >>

\* L162 going on to the registration whether or not esp_now_init succeeded
L162_ignoresFailure ==
  /\ pc = "L162"
  /\ \E ok \in BOOLEAN : init_failed' = ~ok
  /\ pc' = "L168"
  /\ UNCHANGED << mainFrame, wakeup_reason, IS_AWAKE, wake_armed, registered, loopLocals,
                  outputs, decision, prev_decision, spurious >>

\* lines 162-165: esp_now_init(); on failure main returns
L162 ==
  /\ pc = "L162"
  /\ \E ok \in BOOLEAN :
       /\ pc' = IF ok THEN "L168" ELSE "returned"
       /\ init_failed' = ~ok
  /\ UNCHANGED << mainFrame, wakeup_reason, IS_AWAKE, wake_armed, registered, loopLocals,
                  outputs, decision, prev_decision, spurious >>

\* RegisterCond with the registration made unconditional
RegisterCond_always == TRUE

\* line 168: the condition under which the callback is registered
RegisterCond == IS_AWAKE

\* lines 168-171: esp_now_register_recv_cb(Some(on_receive)) when IS_AWAKE
L168 ==
  /\ pc = "L168"
  /\ registered' = RegisterCond
  /\ pc' = "L176"
  /\ UNCHANGED << mainFrame, wakeup_reason, IS_AWAKE, wake_armed, loopLocals, outputs, bootHist >>

\* --------------------------------------------------------- main: the loop
loopFrame == << wake_cause, wakeup_reason, IS_AWAKE, wake_armed, registered, callback,
                nAcc, pub, trig, bootHist >>

\* line 176: if DATA_READY.load(SeqCst)
L176 ==
  /\ pc = "L176"
  /\ IF DATA_READY
       THEN /\ pc' = "L177"
            /\ pub_at_load' = pub
       ELSE /\ pc' = "L211"
            /\ UNCHANGED pub_at_load
  /\ UNCHANGED << loopFrame, mailbox, outputs, topic_id, measurement, topic_src, meas_src,
                  dispatched, rung >>

\* line 177: let topic_id = RECEIVED_TOPIC.load(SeqCst)
L177 ==
  /\ pc = "L177"
  /\ topic_id' = RECEIVED_TOPIC
  /\ topic_src' = RT_src
  /\ pc' = "L178"
  /\ UNCHANGED << loopFrame, mailbox, outputs, measurement, meas_src, pub_at_load,
                  dispatched, rung >>

\* line 178: let measurement = RECEIVED_MEASUREMENT.load(SeqCst)
L178 ==
  /\ pc = "L178"
  /\ measurement' = RECEIVED_MEASUREMENT
  /\ meas_src' = RM_src
  /\ pc' = "L182"
  /\ UNCHANGED << loopFrame, mailbox, outputs, topic_id, topic_src, pub_at_load,
                  dispatched, rung >>

\* PolicyArm with the kettle threshold taken inclusive
PolicyArm_kettleGe(t, m) ==
  IF t = TOPIC_ID_KETTLE_THERMO
    THEN IF m >= KettleThreshold THEN "L75" ELSE "L188"
    ELSE IF t = TOPIC_ID_SINK_THERMO
           THEN IF m < SinkThreshold THEN "L75" ELSE "L197"
           ELSE "L202"

\* PolicyArm with the sink threshold taken inclusive
PolicyArm_sinkLe(t, m) ==
  IF t = TOPIC_ID_KETTLE_THERMO
    THEN IF m > KettleThreshold THEN "L75" ELSE "L188"
    ELSE IF t = TOPIC_ID_SINK_THERMO
           THEN IF m <= SinkThreshold THEN "L75" ELSE "L197"
           ELSE "L202"

\* PolicyArm treating the declared third topic like the kettle thermostat
PolicyArm_soundAlerts(t, m) ==
  IF t = TOPIC_ID_KETTLE_THERMO \/ t = TOPIC_ID_KETTLE_SOUND
    THEN IF m > KettleThreshold THEN "L75" ELSE "L188"
    ELSE IF t = TOPIC_ID_SINK_THERMO
           THEN IF m < SinkThreshold THEN "L75" ELSE "L197"
           ELSE "L202"

\* lines 182-205: the arm the match takes, as the line it continues at:
\* L75 is sound_buzzer followed by flash_led, the others force outputs low
PolicyArm(t, m) ==
  IF t = TOPIC_ID_KETTLE_THERMO
    THEN IF m > KettleThreshold THEN "L75" ELSE "L188"
    ELSE IF t = TOPIC_ID_SINK_THERMO
           THEN IF m < SinkThreshold THEN "L75" ELSE "L197"
           ELSE "L202"

\* line 182: match topic_id
L182 ==
  /\ pc = "L182"
  /\ pc' = PolicyArm(topic_id, measurement)
  /\ dispatched' = Append(dispatched,
                          [topic |-> topic_src, meas |-> meas_src, seen |-> pub_at_load])
  /\ UNCHANGED << loopFrame, mailbox, outputs, loopLocals, rung >>

\* line 75 (sound_buzzer): buzzer.set_high(), then the 500 ms delay
L75 ==
  /\ pc = "L75"
  /\ buzzer' = TRUE
  /\ pc' = "L77"
  /\ UNCHANGED << loopFrame, mailbox, thermo_1_led, thermo_2_led, loopLocals, dispatched, rung >>

\* L77 returning from sound_buzzer without switching the buzzer off
L77_staysHigh ==
  /\ pc = "L77"
  /\ pc' = "L81"
  /\ UNCHANGED << loopFrame, mailbox, outputs, loopLocals, dispatched, rung >>

\* line 77 (sound_buzzer): buzzer.set_low()
L77 ==
  /\ pc = "L77"
  /\ buzzer' = FALSE
  /\ pc' = "L81"
  /\ UNCHANGED << loopFrame, mailbox, thermo_1_led, thermo_2_led, loopLocals, dispatched, rung >>

\* line 81 (flash_led): led.set_high(), then the 1000 ms delay; the LED is
\* thermo_1_led when called from line 186 and thermo_2_led from line 195
L81 ==
  /\ pc = "L81"
  /\ IF topic_id = TOPIC_ID_KETTLE_THERMO
       THEN thermo_1_led' = TRUE /\ UNCHANGED thermo_2_led
       ELSE thermo_2_led' = TRUE /\ UNCHANGED thermo_1_led
  /\ pc' = "L83"
  /\ UNCHANGED << loopFrame, mailbox, buzzer, loopLocals, dispatched, rung >>

\* line 83 (flash_led): led.set_low()
L83 ==
  /\ pc = "L83"
  /\ IF topic_id = TOPIC_ID_KETTLE_THERMO
       THEN thermo_1_led' = FALSE /\ UNCHANGED thermo_2_led
       ELSE thermo_2_led' = FALSE /\ UNCHANGED thermo_1_led
  /\ pc' = "L208"
  /\ UNCHANGED << loopFrame, mailbox, buzzer, loopLocals, dispatched, rung >>

\* lines 188-189: thermo_1_led.set_low(); buzzer.set_low()
L188 ==
  /\ pc = "L188"
  /\ thermo_1_led' = FALSE /\ buzzer' = FALSE
  /\ pc' = "L208"
  /\ UNCHANGED << loopFrame, mailbox, thermo_2_led, loopLocals, dispatched, rung >>

\* lines 197-198: thermo_2_led.set_low(); buzzer.set_low()
L197 ==
  /\ pc = "L197"
  /\ thermo_2_led' = FALSE /\ buzzer' = FALSE
  /\ pc' = "L208"
  /\ UNCHANGED << loopFrame, mailbox, thermo_1_led, loopLocals, dispatched, rung >>

\* lines 202-204: all three outputs set low
L202 ==
  /\ pc = "L202"
  /\ thermo_1_led' = FALSE /\ thermo_2_led' = FALSE /\ buzzer' = FALSE
  /\ pc' = "L208"
  /\ UNCHANGED << loopFrame, mailbox, loopLocals, dispatched, rung >>

\* line 208: DATA_READY.store(false, SeqCst); the locals of the if body go out of scope
L208 ==
  /\ pc = "L208"
  /\ DATA_READY' = FALSE
  /\ topic_id' = 0 /\ measurement' = 0
  /\ topic_src' = 0 /\ meas_src' = 0 /\ pub_at_load' = 0
  /\ rung' = FALSE
  /\ pc' = "L211"
  /\ UNCHANGED << loopFrame, RECEIVED_TOPIC, RECEIVED_MEASUREMENT, RT_src, RM_src,
                  outputs, dispatched >>

\* line 211: FreeRtos::delay_ms(10)
L211 ==
  /\ pc = "L211"
  /\ pc' = "L176"
  /\ UNCHANGED << loopFrame, mailbox, outputs, loopLocals, dispatched, rung >>

\* ------------------------------------------------------------- on_receive
cbFrame == << pc, wake_cause, wakeup_reason, IS_AWAKE, wake_armed, registered,
              loopLocals, outputs, dispatched, trig, bootHist >>

\* ESP-NOW delivers a frame of l bytes to the registered callback
OnReceive(p, l) ==
  /\ registered
  /\ cb_pc = "idle"
  /\ l = HubDataSize => nAcc < MaxFrames
  /\ data' = FrameBytes(p, l)
  /\ cb_pc' = "L53"
  /\ UNCHANGED << cbFrame, mailbox, hub_data, nAcc, pub, rung >>

\* Accepts admitting every frame that is long enough to hold the record
Accepts_atLeast(b) == Len(b) >= HubDataSize

\* line 53: the length test that admits a frame
Accepts(b) == Len(b) = HubDataSize

\* lines 53-54: if len == size_of::<HubData>() { hub_data = read_unaligned(data) }
L53 ==
  /\ cb_pc = "L53"
  /\ IF Accepts(data)
       THEN /\ hub_data' = ReadHubData(data)
            /\ nAcc' = nAcc + 1
            /\ cb_pc' = "L60"
       ELSE /\ cb_pc' = "idle"
            /\ UNCHANGED << hub_data, nAcc >>
  /\ data' = << >>
  /\ UNCHANGED << cbFrame, mailbox, pub, rung >>

\* L60 ringing the doorbell together with the topic store, before the measurement
L60_ringsEarly ==
  /\ cb_pc = "L60"
  /\ RECEIVED_TOPIC' = hub_data.topic_id
  /\ RT_src' = nAcc
  /\ DATA_READY' = TRUE
  /\ cb_pc' = "L61"
  /\ UNCHANGED << cbFrame, RECEIVED_MEASUREMENT, RM_src, data, hub_data, nAcc, pub, rung >>

\* L60 keeping the pending topic when a message is still unconsumed (first wins)
L60_firstWins ==
  /\ cb_pc = "L60"
  /\ IF DATA_READY
       THEN UNCHANGED << RECEIVED_TOPIC, RT_src >>
       ELSE RECEIVED_TOPIC' = hub_data.topic_id /\ RT_src' = nAcc
  /\ cb_pc' = "L61"
  /\ UNCHANGED << cbFrame, RECEIVED_MEASUREMENT, RM_src, DATA_READY, data, hub_data,
                  nAcc, pub, rung >>

\* line 60: RECEIVED_TOPIC.store(hub_data.topic_id, SeqCst)
L60 ==
  /\ cb_pc = "L60"
  /\ RECEIVED_TOPIC' = hub_data.topic_id
  /\ RT_src' = nAcc
  /\ cb_pc' = "L61"
  /\ UNCHANGED << cbFrame, RECEIVED_MEASUREMENT, RM_src, DATA_READY, data, hub_data,
                  nAcc, pub, rung >>

\* line 61: RECEIVED_MEASUREMENT.store(hub_data.measurement, SeqCst)
L61 ==
  /\ cb_pc = "L61"
  /\ RECEIVED_MEASUREMENT' = hub_data.measurement
  /\ RM_src' = nAcc
  /\ cb_pc' = "L62"
  /\ UNCHANGED << cbFrame, RECEIVED_TOPIC, RT_src, DATA_READY, data, hub_data,
                  nAcc, pub, rung >>

\* line 62: DATA_READY.store(true, SeqCst); the callback returns
L62 ==
  /\ cb_pc = "L62"
  /\ DATA_READY' = TRUE
  /\ pub' = nAcc
  /\ rung' = (rung \/ pc \in ActPcs)
  /\ hub_data' = NoData
  /\ cb_pc' = "idle"
  /\ UNCHANGED << cbFrame, RECEIVED_TOPIC, RECEIVED_MEASUREMENT, RT_src, RM_src, data, nAcc >>

\* ------------------------------------------------------------ specification
MainStep ==
  \/ L99 \/ L102 \/ L69 \/ L70 \/ L117 \/ L150 \/ L162 \/ L168
  \/ L176 \/ L177 \/ L178 \/ L182 \/ L75 \/ L77 \/ L81 \/ L83
  \/ L188 \/ L197 \/ L202 \/ L208 \/ L211

CallbackStep == L53 \/ L60 \/ L61 \/ L62

Next ==
  \/ MainStep
  \/ CallbackStep
  \/ \E p \in Payloads, l \in FrameLens : OnReceive(p, l)
  \/ \E c \in WakeCauses : Reset(c)
  \/ ExternalTrigger

Spec == Init /\ [][Next]_vars

\* The scheduler runs the main task and the Wi-Fi task whenever they can step.
FairSpec == Spec /\ WF_vars(MainStep) /\ WF_vars(CallbackStep)

\* ================================================================ claims
Full(e) == e.topic = e.meas /\ e.topic >= 1
DispatchedWhole(f) ==
  \E i \in 1..Len(dispatched) : dispatched[i].topic = f /\ dispatched[i].meas = f
\* a step of the main task that leaves line l (not a restart, not a step of another process)
Leaves(l) == pc = l /\ pc' \notin {l, "L99"}

\* C1: every pair the main loop dispatches on has its topic and its measurement
\* from one and the same accepted frame.
CE_C1 == \A i \in 1..Len(dispatched) : Full(dispatched[i])

\* C2: a frame whose publication completed and after which no frame is accepted
\* is eventually dispatched whole (its own topic with its own measurement).
CE_C2 ==
  \A f \in 1..MaxFrames :
    (pub = f /\ nAcc = f) ~> (nAcc # f \/ DispatchedWhole(f))

\* C3: the store of false at the end of an iteration never overwrites a
\* DATA_READY=true that on_receive stored while that iteration was actuating.
CE_C3 == [][Leaves("L208") => ~rung]_vars

\* C4: two-phase toggle.  A trigger boot with the flag false decides ResumeAndArm,
\* sets the flag and continues; the flag then stays true, so the next trigger boot
\* decides EnterSleep, goes to go_to_sleep and never to the loop, and halts with
\* the flag false; the trigger boot after that decides ResumeAndArm again.
C4_Inv ==
  /\ decision = "ResumeAndArm" => IS_AWAKE /\ pc \notin SleepPcs
  /\ decision = "EnterSleep" => pc \in SleepPcs \cup {"L99", "L102"}
  /\ pc \in {"L70", "halted"} => ~IS_AWAKE /\ decision = "EnterSleep"
C4_Step ==
  (Leaves("L102") /\ wakeup_reason = ESP_SLEEP_WAKEUP_GPIO) =>
     /\ ~IS_AWAKE => decision' = "ResumeAndArm" /\ IS_AWAKE' /\ pc' = "L117"
     /\ IS_AWAKE => decision' = "EnterSleep" /\ pc' = "L69"
     /\ decision = "ResumeAndArm" => decision' = "EnterSleep"
     /\ (decision = "EnterSleep" /\ ~IS_AWAKE) => decision' = "ResumeAndArm"
Thm_C4 == [](C4_Inv) /\ [][C4_Step]_vars
\* the third boot: armed again right after a boot that decided EnterSleep
Wit_C4 == decision = "ResumeAndArm" /\ prev_decision = "EnterSleep" /\ pc = "L176" /\ registered

\* C5: deep sleep is entered only in a boot that has configured the wake source.
CE_C5 == pc = "halted" => wake_armed

\* C6: a trigger that fires while the armed main loop runs leads to deep sleep.
CE_C6 == (trig /\ registered /\ pc \in LoopPcs) ~> (pc = "halted")

\* C7: the callback is registered only in a boot that decided ResumeAndArm.
Thm_C7 == registered => decision = "ResumeAndArm" /\ pc \in LoopPcs
Wit_C7 == registered /\ pc = "L176"

\* C8: a boot whose wake cause is not the GPIO cause decides ColdBoot, leaves the
\* flag false whatever it was, and continues without going to sleep.
C8_Inv == decision = "ColdBoot" => ~IS_AWAKE /\ pc \notin SleepPcs
C8_Step ==
  (Leaves("L102") /\ wakeup_reason # ESP_SLEEP_WAKEUP_GPIO) =>
     decision' = "ColdBoot" /\ ~IS_AWAKE' /\ pc' = "L117"
Thm_C8 == [](C8_Inv) /\ [][C8_Step]_vars
\* a cold boot right after a boot that had set the flag
Wit_C8 == decision = "ColdBoot" /\ prev_decision = "ResumeAndArm" /\ pc = "L176"

\* C9: when frames 1 and 2 were both published before the first successful take
\* began and no further frame is accepted, there is exactly one dispatch and it
\* is frame 2's topic with frame 2's measurement.
Thm_C9 ==
  (Len(dispatched) >= 1 /\ dispatched[1].seen = 2 /\ nAcc = 2) =>
     dispatched = << [topic |-> 2, meas |-> 2, seen |-> 2] >>
Wit_C9 ==
  /\ dispatched = << [topic |-> 2, meas |-> 2, seen |-> 2] >>
  /\ pc = "L211" /\ ~DATA_READY /\ nAcc = 2

\* C10: no frame is dispatched twice.
CE_C10 ==
  \A i, j \in 1..Len(dispatched) :
    (i < j /\ Full(dispatched[i])) =>
       ~(dispatched[j].topic = dispatched[i].topic /\ dispatched[j].meas = dispatched[i].meas)
\* C10, the counting part: dispatches never outnumber completed publications
C10_Count == Len(dispatched) <= pub /\ pub <= nAcc

\* a step of on_receive (the main task stays where it is, the chip does not restart)
CallbackMoves == cb_pc' # cb_pc /\ pc' = pc

\* C11: a frame whose length is not 8 leaves RECEIVED_TOPIC, RECEIVED_MEASUREMENT
\* and DATA_READY unchanged and the callback returns; only a frame of length
\* exactly 8 reaches the stores of lines 60-62, and only those stores write the
\* payload or set DATA_READY.
C11_Drop ==
  (cb_pc = "L53" /\ CallbackMoves /\ Len(data) # HubDataSize) =>
     /\ cb_pc' = "idle"
     /\ UNCHANGED << RECEIVED_TOPIC, RECEIVED_MEASUREMENT, DATA_READY >>
C11_Admit ==
  (cb_pc = "L53" /\ cb_pc' = "L60") =>
     /\ Len(data) = HubDataSize
     /\ \E p \in Payloads : hub_data' = [topic_id |-> p[1], measurement |-> p[2]]
     /\ UNCHANGED << RECEIVED_TOPIC, RECEIVED_MEASUREMENT, DATA_READY >>
C11_Writers ==
  (pc' = pc /\ (\/ RECEIVED_TOPIC' # RECEIVED_TOPIC
                \/ RECEIVED_MEASUREMENT' # RECEIVED_MEASUREMENT
                \/ DATA_READY' /\ ~DATA_READY)) =>
     cb_pc \in {"L60", "L61", "L62"}
Thm_C11 == [][C11_Drop /\ C11_Admit /\ C11_Writers]_vars
\* a 9-byte frame is in the callback while a message is pending in the mailbox
Wit_C11 == cb_pc = "L53" /\ Len(data) = 9 /\ DATA_READY /\ pub = 1

AllLow == ~thermo_1_led /\ ~thermo_2_led /\ ~buzzer
\* positions at which the locals topic_id and measurement hold the values dispatched on
BodyPcs == {"L182", "L208"} \cup ActPcs
PulsePcs == {"L75", "L77", "L81", "L83"}

\* C12: a dispatch on topic 1 with measurement > 50 drives the buzzer high, then
\* low, and only then LED-A high, then low; with measurement <= 50 it goes to the
\* arm of lines 188-189, no output is high at any point of the iteration, and
\* LED-A and the buzzer are written low.
C12_Inv ==
  (pc \in BodyPcs /\ topic_id = TOPIC_ID_KETTLE_THERMO) =>
     /\ pc \notin {"L197", "L202"}
     /\ pc \in PulsePcs => measurement > KettleThreshold
     /\ pc = "L188" => measurement <= KettleThreshold
     /\ pc = "L77" => buzzer /\ ~thermo_1_led /\ ~thermo_2_led
     /\ pc = "L83" => thermo_1_led /\ ~buzzer /\ ~thermo_2_led
     /\ pc \notin {"L77", "L83"} => AllLow
C12_Step ==
  topic_id = TOPIC_ID_KETTLE_THERMO =>
     /\ Leaves("L182") => pc' = IF measurement > KettleThreshold THEN "L75" ELSE "L188"
     /\ Leaves("L75") => pc' = "L77" /\ buzzer' /\ ~thermo_1_led'
     /\ Leaves("L77") => pc' = "L81" /\ ~buzzer' /\ ~thermo_1_led'
     /\ Leaves("L81") => pc' = "L83" /\ thermo_1_led' /\ ~buzzer'
     /\ Leaves("L83") => pc' = "L208" /\ ~thermo_1_led' /\ ~buzzer'
     /\ Leaves("L188") => pc' = "L208" /\ ~thermo_1_led' /\ ~buzzer'
Thm_C12 == [](C12_Inv) /\ [][C12_Step]_vars
\* LED-A is lit for frame (1, 51), after the buzzer went low again
Wit_C12 ==
  /\ pc = "L83" /\ topic_id = TOPIC_ID_KETTLE_THERMO /\ measurement = 51
  /\ thermo_1_led /\ ~buzzer /\ Full([topic |-> topic_src, meas |-> meas_src])

\* C13: a dispatch on topic 2 with measurement < 32 pulses the buzzer and then
\* LED-B; with measurement >= 32 it goes to the arm of lines 197-198, no output
\* is high and LED-B and the buzzer are written low; LED-A is never high.
C13_Inv ==
  (pc \in BodyPcs /\ topic_id = TOPIC_ID_SINK_THERMO) =>
     /\ pc \notin {"L188", "L202"}
     /\ ~thermo_1_led
     /\ pc \in PulsePcs => measurement < SinkThreshold
     /\ pc = "L197" => measurement >= SinkThreshold
     /\ pc = "L77" => buzzer /\ ~thermo_2_led
     /\ pc = "L83" => thermo_2_led /\ ~buzzer
     /\ pc \notin {"L77", "L83"} => AllLow
C13_Step ==
  topic_id = TOPIC_ID_SINK_THERMO =>
     /\ Leaves("L182") => pc' = IF measurement < SinkThreshold THEN "L75" ELSE "L197"
     /\ Leaves("L75") => pc' = "L77" /\ buzzer' /\ ~thermo_2_led'
     /\ Leaves("L77") => pc' = "L81" /\ ~buzzer' /\ ~thermo_2_led'
     /\ Leaves("L81") => pc' = "L83" /\ thermo_2_led' /\ ~thermo_1_led' /\ ~buzzer'
     /\ Leaves("L83") => pc' = "L208" /\ ~thermo_2_led' /\ ~buzzer'
     /\ Leaves("L197") => pc' = "L208" /\ ~thermo_2_led' /\ ~buzzer'
Thm_C13 == [](C13_Inv) /\ [][C13_Step]_vars
\* LED-B is lit for frame (2, 31)
Wit_C13 ==
  /\ pc = "L83" /\ topic_id = TOPIC_ID_SINK_THERMO /\ measurement = 31
  /\ thermo_2_led /\ ~thermo_1_led /\ Full([topic |-> topic_src, meas |-> meas_src])

\* C14: a dispatch on a topic that is neither 1 nor 2 goes to the arm of lines
\* 202-204 whatever the measurement, never to a pulse, no output is high at any
\* point of the iteration and all three outputs are written low.
OtherTopic == topic_id # TOPIC_ID_KETTLE_THERMO /\ topic_id # TOPIC_ID_SINK_THERMO
C14_Inv ==
  (pc \in BodyPcs /\ OtherTopic) => pc \in {"L182", "L202", "L208"} /\ AllLow
C14_Step ==
  OtherTopic =>
     /\ Leaves("L182") => pc' = "L202"
     /\ Leaves("L202") => pc' = "L208" /\ ~thermo_1_led' /\ ~thermo_2_led' /\ ~buzzer'
Thm_C14 == [](C14_Inv) /\ [][C14_Step]_vars
\* the declared but unused topic 3 with a measurement above both thresholds
Wit_C14 ==
  pc = "L208" /\ topic_id = TOPIC_ID_KETTLE_SOUND /\ measurement = 51 /\ AllLow

\* C15: when esp_now_init failed in a boot that decided ResumeAndArm, the next
\* boot with the GPIO wake cause decides ResumeAndArm again.
CE_C15 ==
  [][(Leaves("L102") /\ wakeup_reason = ESP_SLEEP_WAKEUP_GPIO
        /\ init_failed /\ decision = "ResumeAndArm")
       => decision' = "ResumeAndArm"]_vars

\* C16: in a boot in which esp_now_init failed main has returned: the callback is
\* not registered, the loop is never entered (nothing was dispatched), all three
\* outputs are low, and nothing but a restart follows.
C16_Inv ==
  init_failed =>
     /\ pc \in {"returned", "L99", "L102"}
     /\ ~registered /\ AllLow /\ dispatched = << >> /\ cb_pc = "idle"
C16_Step == pc = "returned" => pc' \in {"returned", "L99"}
Thm_C16 == [](C16_Inv) /\ [][C16_Step]_vars
\* main returned from a boot that had decided ResumeAndArm
Wit_C16 == pc = "returned" /\ init_failed /\ decision = "ResumeAndArm" /\ IS_AWAKE

\* C17: on_receive stores the topic, then the measurement, then DATA_READY=true;
\* whenever DATA_READY is true both payload fields were written by an accepted
\* frame, no older than the frame that rang last.
C17_Inv ==
  /\ DATA_READY => pub >= 1 /\ RT_src >= pub /\ RM_src >= pub
  /\ cb_pc = "L61" => RT_src = nAcc
  /\ cb_pc = "L62" => RT_src = nAcc /\ RM_src = nAcc
  /\ cb_pc \in {"L60", "L61", "L62"} => pub < nAcc
C17_Step ==
  CallbackMoves =>
     /\ cb_pc = "L60" =>
          /\ cb_pc' = "L61" /\ RECEIVED_TOPIC' = hub_data.topic_id
          /\ UNCHANGED << RECEIVED_MEASUREMENT, DATA_READY >>
     /\ cb_pc = "L61" =>
          /\ cb_pc' = "L62" /\ RECEIVED_MEASUREMENT' = hub_data.measurement
          /\ UNCHANGED << RECEIVED_TOPIC, DATA_READY >>
     /\ cb_pc = "L62" =>
          /\ cb_pc' = "idle" /\ DATA_READY'
          /\ UNCHANGED << RECEIVED_TOPIC, RECEIVED_MEASUREMENT >>
Thm_C17 == [](C17_Inv) /\ [][C17_Step]_vars
\* the doorbell is set for a frame that carries the initial values (-1, 0)
Wit_C17 ==
  /\ DATA_READY /\ pub = 1 /\ RT_src = 1 /\ RM_src = 1
  /\ RECEIVED_TOPIC = -1 /\ RECEIVED_MEASUREMENT = 0

\* C18: the processor is halted only with IS_AWAKE false; go_to_sleep clears the
\* flag at line 69, before the call at line 70; the boot decision leaves the flag
\* true on the way to go_to_sleep.
C18_Inv ==
  /\ pc = "halted" => ~IS_AWAKE
  /\ pc = "L70" => ~IS_AWAKE
  /\ pc = "L69" => IS_AWAKE
C18_Step ==
  /\ (Leaves("L102") /\ pc' = "L69") => IS_AWAKE /\ IS_AWAKE'
  /\ Leaves("L69") => pc' = "L70" /\ ~IS_AWAKE'
  /\ Leaves("L70") => pc' = "halted" /\ ~IS_AWAKE'
Thm_C18 == [](C18_Inv) /\ [][C18_Step]_vars
Wit_C18 == pc = "halted" /\ ~IS_AWAKE /\ decision = "EnterSleep"

\* C19: at most one of the three outputs is high in every reachable state, and
\* at the poll point (line 176 or the delay of line 211) all three are low.
High(b) == IF b THEN 1 ELSE 0
Thm_C19 ==
  /\ High(thermo_1_led) + High(thermo_2_led) + High(buzzer) <= 1
  /\ pc \in {"L176", "L211"} => AllLow
\* LED-B is lit alone, after two frames were accepted
Wit_C19 == pc = "L83" /\ thermo_2_led /\ ~buzzer /\ ~thermo_1_led /\ nAcc = 2

\* C20: go_to_sleep is entered only from the boot decision, in a boot whose wake
\* cause is the GPIO trigger and whose retained flag is true; as long as the GPIO
\* cause has been reported only for boots that follow a deep-sleep halt, an
\* execution that starts at power-on with the flag false never enters deep sleep
\* and never registers the receive listener.
C20_Inv ==
  /\ pc \in SleepPcs => wakeup_reason = ESP_SLEEP_WAKEUP_GPIO /\ decision = "EnterSleep"
  /\ ~spurious =>
       /\ pc \notin SleepPcs
       /\ ~registered
       /\ cb_pc = "idle"
       /\ decision \in {"none", "ColdBoot"}
C20_Step ==
  (pc' = "L69" /\ pc # "L69") =>
     pc = "L102" /\ wakeup_reason = ESP_SLEEP_WAKEUP_GPIO /\ IS_AWAKE
Thm_C20 == [](C20_Inv) /\ [][C20_Step]_vars
\* the second cold boot of a power-on execution polls while the wake GPIO fires
Wit_C20 ==
  /\ ~spurious /\ pc = "L176" /\ trig
  /\ decision = "ColdBoot" /\ prev_decision = "ColdBoot" /\ ~IS_AWAKE

====
